---- MODULE Spec2Model ----
(***************************************************************************)
(* The voice conversation session manager of the App component             *)
(* (src/types.ts): handleToggleRecording, the callbacks it registers with  *)
(* ai.live.connect (onopen, onmessage, onclose, onerror) and handleCleanup. *)
(*                                                                         *)
(* Every start attempt is numbered 1, 2, ...; attempt k owns microphone     *)
(* stream k, input context k, output context k and session k, so the four  *)
(* refs of the component hold an attempt number, or 0 for null.            *)
(* Times are in tenths of a second.                                        *)
(***************************************************************************)
EXTENDS Integers, Sequences, FiniteSets, TLC

\* ---------------------------------------------------------------- bounds
MaxAttempts == 3      \* start attempts in the lifecycle specification
MaxMsgs == 2          \* onmessage deliveries in the lifecycle specification
PlayAttempts == 1     \* start attempts in the playback specification
PlayMsgs == 4         \* onmessage deliveries in the playback specification
TurnMsgs == 3         \* onmessage deliveries in the transcript specification
MaxSrc == 3           \* playback sources created
MaxClock == 3         \* last value of an output context's clock
MaxNoKey == 2         \* toggles answered with the missing-key message

MaxText == 2          \* characters a transcript buffer holds
CaptureAttempts == 2  \* start attempts in the capture specification
MaxTicks == 3         \* onaudioprocess events
MaxFiles == 2         \* files the store's key generator gives a key to
MaxFileOps == 4       \* uploads, toggles and deletes asked for
MaxQueries == 2       \* text queries accepted
MaxContext == 1       \* changes of group, URL list or mode

Attempts == 1..MaxAttempts
FileIds == 1..MaxFiles
SrcIds == 1..MaxSrc
Durations == {2, 3, 5}     \* chunk durations: 0.2 s, 0.3 s, 0.5 s

\* Math.max with the smaller argument returned
MinOf(a, b) == IF a >= b THEN b ELSE a

\* Math.max (493)
Max(a, b) == IF a >= b THEN a ELSE b

\* The cursor left where it was when a chunk is scheduled
CursorNotAdvanced(cursor, dur) == cursor

\* nextStartTimeRef.current += audioBuffer.duration (500)
CursorAfter(cursor, dur) == cursor + dur

\* ------------------------------------------------------------------ codec
\* A sample is a multiple of half a 16-bit step: the number n stands for the
\* float n / Grid, so 1.0 is Grid and 1/32768 is 2.
Scale == 32768        \* data[i] * 32768, dataInt16[...] / 32768.0
PosScale == 32767     \* 0x7FFF
Grid == 2 * Scale
FaultMsgs == 3        \* onmessage deliveries in the malformed-message specification
MaxOver == 4          \* how far beyond 1.0 and -1.0 the samples go, in Grid steps
Samples == (0 - Grid - MaxOver) .. (Grid + MaxOver)

\* The product of the float a / Grid (a >= 0) and the integer k, as a whole
\* part and a remainder in Grid-ths.
Whole(a, k) == (a \div Grid) * k + ((a % Grid) * k) \div Grid
Rest(a, k) == ((a % Grid) * k) % Grid

\* What storing the product of the sample s and k in an Int16Array, or with
\* setInt16, keeps of it before it wraps: the integer part, towards zero.
Trunc(s, k) == IF s >= 0 THEN Whole(s, k) ELSE 0 - Whole(0 - s, k)

\* Math.round of the product of the sample s and k: the nearest integer,
\* a half going up.
Round(s, k) ==
  IF s >= 0 THEN Whole(s, k) + (IF 2 * Rest(s, k) >= Grid THEN 1 ELSE 0)
  ELSE 0 - (Whole(0 - s, k) + (IF 2 * Rest(0 - s, k) > Grid THEN 1 ELSE 0))

\* The 16-bit signed integer a typed array stores for the integer x: x modulo
\* 2^16, taken in -32768 .. 32767.
ToInt16(x) == ((x + Scale) % (2 * Scale)) - Scale

\* createBlob (69-79), the Int16Array it encodes: int16[i] = data[i] * 32768
createBlob(d) == [i \in DOMAIN d |-> ToInt16(Trunc(d[i], Scale))]

\* decodeAudioData (41-58), one channel: dataInt16[i] / 32768.0, as samples
decodeAudioData(dataInt16) ==
  [i \in DOMAIN dataInt16 |-> dataInt16[i] * (Grid \div Scale)]

\* Math.max(-1, Math.min(1, input[i])) (audioService.ts 16)
Clamp(s) == IF s > Grid THEN Grid ELSE IF s < 0 - Grid THEN 0 - Grid ELSE s

\* floatTo16BitPCM (14-20), the 16-bit values it writes:
\* setInt16(offset, s < 0 ? s * 0x8000 : s * 0x7FFF)
floatTo16BitPCM(input) ==
  [i \in DOMAIN input |->
     LET c == Clamp(input[i])
     IN ToInt16(IF c < 0 THEN Trunc(c, Scale) ELSE Trunc(c, PosScale))]

VARIABLES
  apiKey,                 \* process.env.API_KEY is set
  isRecording,            \* the isRecording state, latest requested value
  recView,                \* isRecording as the last render's closures see it
  chatMessages,           \* the chatMessages state, queued updaters applied
  dirty,                  \* a state update waits for the next render
  mediaStreamRef,
  inputAudioContextRef,
  outputAudioContextRef,
  sessionPromiseRef,
  nextStartTimeRef,
  audioSourcesRef,
  nAttempts,              \* start attempts made so far
  pc,                     \* attempt -> position in handleToggleRecording
  stream,                 \* attempt -> state of its MediaStream's tracks
  inCtx,                  \* attempt -> state of its input AudioContext
  outCtx,                 \* attempt -> state of its output AudioContext
  clock,                  \* attempt -> currentTime of its output AudioContext
  sess,                   \* attempt -> state of its live session
  closeWanted,            \* attempt -> a then(session => session.close()) is registered
  errFired,               \* attempt -> onerror was called
  closeFired,             \* attempt -> onclose was called
  bufIn,                  \* attempt -> currentInputTranscription of its closures
  bufOut,                 \* attempt -> currentOutputTranscription of its closures
  resume,                 \* the onmessage continuation waiting behind its await
  nMsgs,                  \* onmessage deliveries so far
  nSrc,                   \* playback sources created so far
  src,                    \* source -> [state, ctx, start, dur]
  sched,                  \* chunks scheduled since the cursor was last reset
  proc,                   \* input context -> onopen wired a script processor to it
  sent,                   \* session -> the states it was in when sendRealtimeInput was called
  nTicks,                 \* onaudioprocess events so far
  queued,                 \* session -> the frames chained to its pending promise, in order
  frames,                 \* session -> the frames passed to sendRealtimeInput, in order
  data,                   \* the samples given to an encoder
  int16,                  \* the Int16Array createBlob fills
  channelData,            \* the channel data decodeAudioData fills
  output,                 \* the 16-bit values floatTo16BitPCM writes
  stopAsked,              \* the attempt asked to stop while its getUserMedia was pending, until its connect settles (0: none)
  storedFiles,            \* the storedFiles state: file id -> "none", "on" (active), "off"
  db,                     \* the 'files' object store: file id -> "none", "on", "off"
  nextKey,                \* the last key the store's key generator gave out
  requests,               \* the store's requests not yet completed, oldest first
  nFileOps,               \* file operations asked for so far
  isLoading,              \* the isLoading state
  pending,                \* the query whose request is in flight (0: none)
  nQueries,               \* queries accepted so far
  nContext                \* changes of group, URL list or mode so far

vars == <<apiKey, isRecording, recView, chatMessages, dirty, mediaStreamRef,
          inputAudioContextRef, outputAudioContextRef, sessionPromiseRef,
          nextStartTimeRef, audioSourcesRef, nAttempts, pc, stream, inCtx, outCtx,
          clock, sess, closeWanted, errFired, closeFired, bufIn, bufOut, resume,
          nMsgs, nSrc, src, sched, proc, sent, nTicks, queued, frames, data, int16,
          channelData, output, stopAsked, storedFiles, db, nextKey, requests,
          nFileOps, isLoading, pending, nQueries, nContext>>

refVars == <<mediaStreamRef, inputAudioContextRef, outputAudioContextRef,
             sessionPromiseRef, nextStartTimeRef, audioSourcesRef, isRecording>>
resVars == <<stream, inCtx, outCtx, src>>
envVars == <<sess, closeWanted, errFired, closeFired>>
bufVars == <<bufIn, bufOut>>
capVars == <<proc, sent, nTicks, queued, frames>>
codecVars == <<data, int16, channelData, output>>
fileVars == <<storedFiles, db, nextKey, requests, nFileOps>>
chatVars == <<isLoading, pending, nQueries, nContext>>
appVars == <<fileVars, chatVars>>

NoSrc == [state |-> "none", ctx |-> 0, start |-> 0, dur |-> 0]
NoResume == [k |-> 0, ctx |-> 0, dur |-> 0, interrupted |-> FALSE]

InitVoice ==
  /\ apiKey \in BOOLEAN
  /\ isRecording = FALSE
  /\ recView = FALSE
  /\ chatMessages = <<>>
  /\ dirty = FALSE
  /\ mediaStreamRef = 0
  /\ inputAudioContextRef = 0
  /\ outputAudioContextRef = 0
  /\ sessionPromiseRef = 0
  /\ nextStartTimeRef = 0
  /\ audioSourcesRef = {}
  /\ nAttempts = 0
  /\ pc = [k \in Attempts |-> "idle"]
  /\ stream = [k \in Attempts |-> "none"]
  /\ inCtx = [k \in Attempts |-> "none"]
  /\ outCtx = [k \in Attempts |-> "none"]
  /\ clock = [k \in Attempts |-> 0]
  /\ sess = [k \in Attempts |-> "none"]
  /\ closeWanted = [k \in Attempts |-> FALSE]
  /\ errFired = [k \in Attempts |-> FALSE]
  /\ closeFired = [k \in Attempts |-> FALSE]
  /\ bufIn = [k \in Attempts |-> ""]
  /\ bufOut = [k \in Attempts |-> ""]
  /\ resume = NoResume
  /\ nMsgs = 0
  /\ nSrc = 0
  /\ src = [i \in SrcIds |-> NoSrc]
  /\ sched = <<>>
  /\ proc = [k \in Attempts |-> FALSE]
  /\ sent = [k \in Attempts |-> {}]
  /\ nTicks = 0
  /\ queued = [k \in Attempts |-> <<>>]
  /\ frames = [k \in Attempts |-> <<>>]
  /\ stopAsked = 0
  /\ storedFiles = [f \in FileIds |-> "none"]
  /\ db = [f \in FileIds |-> "none"]
  /\ nextKey = 0
  /\ requests = <<>>
  /\ nFileOps = 0
  /\ isLoading = FALSE
  /\ pending = 0
  /\ nQueries = 0
  /\ nContext = 0

Init ==
  /\ InitVoice
  /\ data = <<>>
  /\ int16 = <<>>
  /\ channelData = <<>>
  /\ output = <<>>

\* ------------------------------------------------------- the voice state
\* The refs and the resources behind them, as one value handleCleanup maps.
Voice ==
  [ms |-> mediaStreamRef, inRef |-> inputAudioContextRef,
   outRef |-> outputAudioContextRef, sp |-> sessionPromiseRef,
   next |-> nextStartTimeRef, srcs |-> audioSourcesRef, rec |-> isRecording,
   stream |-> stream, inCtx |-> inCtx, outCtx |-> outCtx, src |-> src,
   releases |-> 0, stopped |-> {}]

\* What a user or a test can observe of a voice state.
Observable(v) ==
  [ms |-> v.ms, inRef |-> v.inRef, outRef |-> v.outRef, sp |-> v.sp,
   next |-> v.next, srcs |-> v.srcs, rec |-> v.rec]

\* The sources left playing
StopNone(s, ids) == s

\* audioSourcesRef.current.forEach(source => source.stop()) (405, 504)
StopAll(s, ids) ==
  [i \in SrcIds |-> IF i \in ids THEN [s[i] EXCEPT !.state = "stopped"] ELSE s[i]]

\* handleCleanup with the assignment to mediaStreamRef.current left out
handleCleanupKeepsStream(v) ==
  LET inLive == v.inRef # 0 /\ v.inCtx[v.inRef] # "closed"
      outLive == v.outRef # 0 /\ v.outCtx[v.outRef] # "closed"
  IN [v EXCEPT
        !.stream = IF v.ms # 0 THEN [v.stream EXCEPT ![v.ms] = "stopped"] ELSE v.stream,
        !.inCtx = IF inLive THEN [v.inCtx EXCEPT ![v.inRef] = "closed"] ELSE v.inCtx,
        !.inRef = 0,
        !.outCtx = IF outLive THEN [v.outCtx EXCEPT ![v.outRef] = "closed"] ELSE v.outCtx,
        !.outRef = 0,
        !.src = StopAll(v.src, v.srcs),
        !.srcs = {},
        !.next = 0,
        !.sp = 0,
        !.rec = FALSE,
        !.stopped = v.srcs,
        !.releases = (IF v.ms # 0 THEN 1 ELSE 0) + (IF inLive THEN 1 ELSE 0)
                     + (IF outLive THEN 1 ELSE 0) + Cardinality(v.srcs)]

\* handleCleanup without source.stop() on the active sources
handleCleanupLeavesSources(v) ==
  LET inLive == v.inRef # 0 /\ v.inCtx[v.inRef] # "closed"
      outLive == v.outRef # 0 /\ v.outCtx[v.outRef] # "closed"
  IN [v EXCEPT
        !.stream = IF v.ms # 0 THEN [v.stream EXCEPT ![v.ms] = "stopped"] ELSE v.stream,
        !.ms = 0,
        !.inCtx = IF inLive THEN [v.inCtx EXCEPT ![v.inRef] = "closed"] ELSE v.inCtx,
        !.inRef = 0,
        !.outCtx = IF outLive THEN [v.outCtx EXCEPT ![v.outRef] = "closed"] ELSE v.outCtx,
        !.outRef = 0,
        !.srcs = {},
        !.next = 0,
        !.sp = 0,
        !.rec = FALSE,
        !.stopped = {},
        !.releases = (IF v.ms # 0 THEN 1 ELSE 0) + (IF inLive THEN 1 ELSE 0)
                     + (IF outLive THEN 1 ELSE 0)]

\* handleCleanup: the voice state it leaves, with the sources it stopped and
\* the number of release calls (track.stop, context.close, source.stop) it made.
handleCleanup(v) ==
  LET inLive == v.inRef # 0 /\ v.inCtx[v.inRef] # "closed"
      outLive == v.outRef # 0 /\ v.outCtx[v.outRef] # "closed"
  IN [v EXCEPT
        !.stream = IF v.ms # 0 THEN [v.stream EXCEPT ![v.ms] = "stopped"] ELSE v.stream,
        !.ms = 0,
        !.inCtx = IF inLive THEN [v.inCtx EXCEPT ![v.inRef] = "closed"] ELSE v.inCtx,
        !.inRef = 0,
        !.outCtx = IF outLive THEN [v.outCtx EXCEPT ![v.outRef] = "closed"] ELSE v.outCtx,
        !.outRef = 0,
        !.src = StopAll(v.src, v.srcs),
        !.srcs = {},
        !.next = 0,
        !.sp = 0,
        !.rec = FALSE,
        !.stopped = v.srcs,
        !.releases = (IF v.ms # 0 THEN 1 ELSE 0) + (IF inLive THEN 1 ELSE 0)
                     + (IF outLive THEN 1 ELSE 0) + Cardinality(v.srcs)]

\* The component takes the voice state v.
SetVoice(v) ==
  /\ mediaStreamRef' = v.ms
  /\ inputAudioContextRef' = v.inRef
  /\ outputAudioContextRef' = v.outRef
  /\ sessionPromiseRef' = v.sp
  /\ nextStartTimeRef' = v.next
  /\ audioSourcesRef' = v.srcs
  /\ isRecording' = v.rec
  /\ stream' = v.stream
  /\ inCtx' = v.inCtx
  /\ outCtx' = v.outCtx
  /\ src' = v.src


\* ------------------------------------------------------------ chat log
\* setChatMessages(prev => [...prev, message]) queues an updater; React runs
\* the queued updaters in order at the next render, and runs the first one at
\* the call when the component has no update pending. An updater that reads
\* nothing mutable gives the same log whenever it runs, so chatMessages holds
\* the log with every queued updater applied, and only a message whose
\* updater has still to read a transcript variable is marked: lazy names that
\* variable ("" once the text is read). said is the text the handler had in
\* hand at the call, text the text the log shows.
Msg(sender, kind, text, k) ==
  [sender |-> sender, kind |-> kind, text |-> text, said |-> text, k |-> k,
   lazy |-> ""]
LazyMsg(sender, kind, text, k, which) ==
  [sender |-> sender, kind |-> kind, text |-> "", said |-> text, k |-> k,
   lazy |-> which]

Connecting == "Connecting to voice session..."

\* prev.filter(m => m.text !== 'Connecting to voice session...') (458)
RECURSIVE FilterConnecting(_)
FilterConnecting(log) ==
  IF log = <<>> THEN <<>>
  ELSE IF Head(log).kind = "connecting" THEN FilterConnecting(Tail(log))
       ELSE <<Head(log)>> \o FilterConnecting(Tail(log))

\* The updater of a message runs: its closure reads the transcript variable.
Resolve(m) ==
  IF m.lazy = "in" THEN [m EXCEPT !.text = bufIn[m.k], !.lazy = ""]
  ELSE IF m.lazy = "out" THEN [m EXCEPT !.text = bufOut[m.k], !.lazy = ""]
  ELSE m

\* --------------------------------------------------------------- handlers
\* A frame passed to sendRealtimeInput ahead of the frames sent before it
SendFrameFirst(log, t) == <<t>> \o log

\* session.sendRealtimeInput({ media: pcmBlob }) (466): frame t is the next
\* the session is given.
SendFrame(log, t) == Append(log, t)

\* A task started while a continuation is still waiting
IdleOrNot == TRUE

\* A task (a click, a session callback, a timer) starts only when the
\* microtasks of the one before it, an onmessage continuation among them,
\* have run.
Idle == resume.k = 0

attemptVars == <<nAttempts, pc>>
playVars == <<clock, resume, nMsgs, nSrc>>

\* The attempt a stop request finds without a session promise: the one still
\* waiting for the microphone (0: none). sessionPromiseRef.current?.then is
\* then not called (421) and the component keeps no trace of the request;
\* stopAsked records it.
StopTarget ==
  IF sessionPromiseRef = 0 /\ nAttempts # 0 /\ pc[nAttempts] = "getUserMedia"
    THEN nAttempts
  ELSE 0

\* Attempt k is over or its connect has settled: a stop request recorded
\* for it is dropped.
StopSettled(k) == IF stopAsked = k THEN 0 ELSE stopAsked

\* A stop request that would release the resources itself.
StopRequestedCleansUp(v) == handleCleanup(v)

\* The stop branch of handleToggleRecording (420-424) chains session.close()
\* to the session promise and returns: it assigns no ref and calls no
\* release.
StopRequested(v) == v

\* handleToggleRecording up to its first await (413-432). Its state updates
\* are made inside the click handler, so React renders them before the next
\* event: the next click sees isRecording true.
ToggleRecording(maxAttempts) ==
  /\ Idle
  /\ IF ~apiKey
       THEN /\ Len(chatMessages) < MaxNoKey
            /\ chatMessages' = Append(chatMessages,
                 Msg("system", "noKey", "ERROR: API Key is not configured.", 0))
            /\ UNCHANGED <<recView, attemptVars, envVars, refVars, resVars, stopAsked>>
       ELSE IF recView
         THEN LET k == sessionPromiseRef
              IN /\ sess' = IF k # 0 /\ sess[k] = "open"
                              THEN [sess EXCEPT ![k] = "closing"] ELSE sess
                 /\ closeWanted' = IF k # 0 /\ sess[k] = "connecting"
                                     THEN [closeWanted EXCEPT ![k] = TRUE]
                                     ELSE closeWanted
                 /\ stopAsked' = IF StopTarget = 0 THEN stopAsked ELSE StopTarget
                 /\ SetVoice(StopRequested(Voice))
                 /\ UNCHANGED <<recView, attemptVars, chatMessages,
                                errFired, closeFired>>
         ELSE LET k == nAttempts + 1
              IN /\ nAttempts < maxAttempts
                 /\ nAttempts' = k
                 /\ pc' = [pc EXCEPT ![k] = "getUserMedia"]
                 /\ isRecording' = TRUE
                 /\ recView' = TRUE
                 /\ chatMessages' = Append(chatMessages,
                      Msg("system", "connecting", Connecting, k))
                 /\ UNCHANGED <<envVars, mediaStreamRef, inputAudioContextRef,
                                outputAudioContextRef, sessionPromiseRef,
                                nextStartTimeRef, audioSourcesRef, resVars, stopAsked>>
  /\ UNCHANGED <<apiKey, appVars, capVars, codecVars,
                 dirty, bufVars, playVars, sched>>

\* The catch block of handleToggleRecording (520-528) entered from voice state v.
StartFails(k, v, text) ==
  /\ pc' = [pc EXCEPT ![k] = "failed"]
  /\ chatMessages' = Append(chatMessages, Msg("system", "startError", text, k))
  /\ dirty' = TRUE
  /\ SetVoice(handleCleanup(v))
  /\ sched' = <<>>
  /\ stopAsked' = StopSettled(k)
  /\ UNCHANGED <<apiKey, appVars, capVars, codecVars,
                 recView, nAttempts, envVars, bufVars, playVars>>

\* getUserMedia rejects (432): the await throws into the catch block.
GetUserMediaRejects(k) ==
  /\ Idle
  /\ pc[k] = "getUserMedia"
  /\ StartFails(k, Voice, "Microphone access was denied.")

\* mediaStreamRef.current = await getUserMedia (432), resolved
WithStream(v, k) == [v EXCEPT !.ms = k, !.stream[k] = "live"]
\* inputAudioContextRef.current = new AudioContext (433)
WithInputContext(v, k) == [v EXCEPT !.inRef = k, !.inCtx[k] = "running"]
\* outputAudioContextRef.current = new AudioContext (434)
WithOutputContext(v, k) == [v EXCEPT !.outRef = k, !.outCtx[k] = "running"]

\* getUserMedia resolves (432), and the rest of the try block runs: the two
\* AudioContext constructors (433, 434), either of which may throw, and the
\* call of ai.live.connect (446), whose promise is stored, not awaited.
GetUserMediaResolves(k) ==
  /\ Idle
  /\ pc[k] = "getUserMedia"
  /\ LET v1 == WithStream(Voice, k)
         v2 == WithInputContext(v1, k)
         v3 == WithOutputContext(v2, k)
     IN \E outcome \in {"connect", "inputContextThrows", "outputContextThrows"} :
          IF outcome = "inputContextThrows"
            THEN StartFails(k, v1, "Failed to start voice session")
          ELSE IF outcome = "outputContextThrows"
            THEN StartFails(k, v2, "Failed to start voice session")
          ELSE /\ SetVoice([v3 EXCEPT !.sp = k])
               /\ sess' = [sess EXCEPT ![k] = "connecting"]
               /\ pc' = [pc EXCEPT ![k] = "started"]
               /\ UNCHANGED <<apiKey, appVars, stopAsked, capVars, codecVars,
                              recView, chatMessages, dirty, nAttempts,
                              closeWanted, errFired, closeFired, bufVars, playVars,
                              sched>>

\* The session opens: onopen runs (456-471) and wires a script processor to
\* the input context the ref holds; then the promise resolves, and what was
\* chained to it is called in the order it was chained: the sends of frames
\* captured meanwhile, the session.close() of a stop request.
ConnectOpens(k) ==
  /\ Idle
  /\ sess[k] = "connecting"
  /\ ~errFired[k]
  /\ LET wired == mediaStreamRef # 0 /\ inputAudioContextRef # 0
     IN /\ chatMessages' =
             IF wired
               THEN Append(FilterConnecting(chatMessages),
                      Msg("system", "open", "Connection open. Start speaking.", k))
               ELSE chatMessages
        /\ dirty' = (dirty \/ wired)
        /\ proc' = IF wired THEN [proc EXCEPT ![inputAudioContextRef] = TRUE] ELSE proc
  /\ sess' = [sess EXCEPT ![k] = IF closeWanted[k] THEN "closing" ELSE "open"]
  /\ sent' = [sent EXCEPT ![k] =
               (@ \ {"queued", "queuedAfterClose"})
               \cup (IF "queued" \in @ THEN {"open"} ELSE {})
               \cup (IF "queuedAfterClose" \in @ THEN {"closing"} ELSE {})]
  /\ frames' = [frames EXCEPT ![k] = @ \o queued[k]]
  /\ queued' = [queued EXCEPT ![k] = <<>>]
  /\ stopAsked' = StopSettled(k)
  /\ UNCHANGED <<apiKey, appVars, codecVars, nTicks, recView, attemptVars, refVars, resVars,
                 closeWanted, errFired, closeFired, bufVars, playVars, sched>>

\* A capture tick that would drop the session reference.
AudioProcessClearsSession(c) ==
  /\ Idle
  /\ proc[c]
  /\ inCtx[c] = "running"
  /\ nTicks < MaxTicks
  /\ nTicks' = nTicks + 1
  /\ sessionPromiseRef' = 0
  /\ UNCHANGED <<apiKey, appVars, stopAsked, codecVars, proc, sent, queued, frames, isRecording, recView,
                 chatMessages, dirty, mediaStreamRef, inputAudioContextRef,
                 outputAudioContextRef, nextStartTimeRef, audioSourcesRef, attemptVars,
                 stream, inCtx, outCtx, src, envVars, bufVars, playVars, sched>>

\* scriptProcessor.onaudioprocess (462-468) of the processor wired to input
\* context c: the captured samples are encoded by createBlob and the frame is
\* sent to the session the session ref holds at that moment, at once when
\* its promise has resolved, when it resolves otherwise (the callbacks
\* chained to a promise are called in the order they were chained). sent
\* records the state the session is in when sendRealtimeInput is called.
AudioProcess(c) ==
  /\ Idle
  /\ proc[c]
  /\ inCtx[c] = "running"
  /\ nTicks < MaxTicks
  /\ nTicks' = nTicks + 1
  /\ LET j == sessionPromiseRef
         at == IF errFired[j] \/ closeFired[j] THEN "terminated"
               ELSE IF sess[j] = "connecting"
                 THEN (IF closeWanted[j] THEN "queuedAfterClose" ELSE "queued")
               ELSE sess[j]
         gone == j = 0 \/ sess[j] \in {"rejected", "failed"}
         waits == ~gone /\ at \in {"queued", "queuedAfterClose"}
     IN /\ sent' = IF gone THEN sent ELSE [sent EXCEPT ![j] = @ \cup {at}]
        /\ queued' = IF waits THEN [queued EXCEPT ![j] = Append(@, nTicks + 1)]
                      ELSE queued
        /\ frames' = IF gone \/ waits THEN frames
                      ELSE [frames EXCEPT ![j] = SendFrame(@, nTicks + 1)]
  /\ UNCHANGED <<apiKey, appVars, stopAsked, codecVars, proc, isRecording, recView, chatMessages, dirty,
                 mediaStreamRef, inputAudioContextRef, outputAudioContextRef,
                 sessionPromiseRef, nextStartTimeRef, audioSourcesRef, attemptVars,
                 stream, inCtx, outCtx, src, envVars, bufVars, playVars, sched>>

\* The promise of ai.live.connect rejects. Nothing awaits it and nothing has
\* chained a rejection handler to it (446, 421, 465).
ConnectRejects(k) ==
  /\ Idle
  /\ sess[k] = "connecting"
  /\ ~errFired[k]
  /\ sess' = [sess EXCEPT ![k] = "rejected"]
  /\ stopAsked' = StopSettled(k)
  /\ UNCHANGED <<apiKey, appVars, capVars, codecVars,
                 recView, chatMessages, dirty, attemptVars, refVars,
                 resVars, closeWanted, errFired, closeFired, bufVars, playVars, sched>>

\* onerror (513-517). The transport reports an error once, before it closes.
OnError(k) ==
  /\ Idle
  /\ sess[k] \in {"connecting", "open", "closing"}
  /\ ~errFired[k]
  /\ errFired' = [errFired EXCEPT ![k] = TRUE]
  /\ chatMessages' = Append(chatMessages,
       Msg("system", "sessionError", "Voice session error", k))
  /\ dirty' = TRUE
  /\ SetVoice(handleCleanup(Voice))
  /\ sched' = <<>>
  /\ stopAsked' = StopSettled(k)
  /\ UNCHANGED <<apiKey, appVars, capVars, codecVars,
                 recView, attemptVars, sess, closeWanted, closeFired,
                 bufVars, playVars>>

\* onclose (509-512).
OnClose(k) ==
  /\ Idle
  /\ sess[k] \in {"connecting", "open", "closing"}
  /\ closeFired' = [closeFired EXCEPT ![k] = TRUE]
  /\ sess' = [sess EXCEPT ![k] = IF sess[k] = "connecting" THEN "failed" ELSE "closed"]
  /\ chatMessages' = Append(chatMessages,
       Msg("system", "sessionClosed", "Voice session closed.", k))
  /\ dirty' = TRUE
  /\ SetVoice(handleCleanup(Voice))
  /\ sched' = <<>>
  /\ stopAsked' = StopSettled(k)
  /\ UNCHANGED <<apiKey, appVars, capVars, codecVars,
                 recView, attemptVars, closeWanted, errFired, bufVars,
                 playVars>>

\* React renders: the queued updaters run, and the closures of the new render
\* see the new isRecording.
Render ==
  /\ Idle
  /\ dirty
  /\ chatMessages' = [i \in DOMAIN chatMessages |-> Resolve(chatMessages[i])]
  /\ dirty' = FALSE
  /\ recView' = isRecording
  /\ UNCHANGED <<apiKey, appVars, stopAsked, capVars, codecVars,
                 attemptVars, refVars, resVars, envVars, bufVars, playVars,
                 sched>>

\* -------------------------------------------------------------- onmessage
\* A LiveServerMessage: the transcription texts ("" for a field that is
\* absent), turnComplete, the duration of the audio payload (0 for none) and
\* interrupted. fault tells what is wrong with its shape: nothing, a
\* modelTurn without parts, or a payload that atob or the Int16Array
\* constructor rejects.
Message(inT, outT, tc, audio, interrupted) ==
  [inT |-> inT, outT |-> outT, tc |-> tc, audio |-> audio, interrupted |-> interrupted,
   fault |-> "none"]
Malformed(m, fault) == [m EXCEPT !.fault = fault]

\* onmessage up to its await (472-494): the transcripts, the turn flush, the
\* cursor brought up to the output clock. Without an audio payload, or with
\* no output context, there is no await and the interrupted branch (503-507)
\* runs at once. A modelTurn without parts throws at 490, an undecodable
\* payload at 494 (in decode, or in decodeAudioData and then out of the
\* await): the rest of the handler is not run.
OnMessage(k, m, maxMsgs) ==
  /\ Idle
  /\ sess[k] \in {"open", "closing", "closed"}
  /\ nMsgs < maxMsgs
  /\ m.audio > 0 => nSrc < MaxSrc
  /\ Len(bufIn[k]) + Len(m.inT) <= MaxText
  /\ Len(bufOut[k]) + Len(m.outT) <= MaxText
  /\ nMsgs' = nMsgs + 1
  /\ LET heardIn == bufIn[k] \o m.inT
         heardOut == bufOut[k] \o m.outT
         calls == m.tc /\ (heardIn # "" \/ heardOut # "")
         reach == m.audio > 0 /\ m.fault # "noParts" /\ outputAudioContextRef # 0
         play == reach /\ m.fault = "none"
         thrown == m.fault = "noParts" \/ (reach /\ m.fault = "undecodable")
         flush == m.interrupted /\ ~play /\ ~thrown
     IN /\ \E eager \in (IF calls /\ ~dirty THEN BOOLEAN ELSE {FALSE}) :
             chatMessages' =
               IF ~m.tc THEN chatMessages
               ELSE chatMessages
                    \o (IF heardIn = "" THEN <<>>
                        ELSE IF eager THEN <<Msg("user", "voice", heardIn, k)>>
                        ELSE <<LazyMsg("user", "voice", heardIn, k, "in")>>)
                    \o (IF heardOut = "" THEN <<>>
                        ELSE IF eager /\ heardIn = ""
                          THEN <<Msg("model", "voice", heardOut, k)>>
                        ELSE <<LazyMsg("model", "voice", heardOut, k, "out")>>)
        /\ dirty' = (dirty \/ calls)
        /\ bufIn' = [bufIn EXCEPT ![k] = IF m.tc THEN "" ELSE heardIn]
        /\ bufOut' = [bufOut EXCEPT ![k] = IF m.tc THEN "" ELSE heardOut]
        /\ resume' = IF play
                       THEN [k |-> k, ctx |-> outputAudioContextRef, dur |-> m.audio,
                             interrupted |-> m.interrupted]
                       ELSE NoResume
        /\ nextStartTimeRef' =
             IF reach THEN Max(nextStartTimeRef, clock[outputAudioContextRef])
             ELSE IF flush THEN 0 ELSE nextStartTimeRef
        /\ src' = IF flush THEN StopAll(src, audioSourcesRef) ELSE src
        /\ audioSourcesRef' = IF flush THEN {} ELSE audioSourcesRef
        /\ sched' = IF flush THEN <<>> ELSE sched
  /\ UNCHANGED <<apiKey, appVars, stopAsked, capVars, codecVars,
                 isRecording, recView, mediaStreamRef, inputAudioContextRef,
                 outputAudioContextRef, sessionPromiseRef, attemptVars, stream,
                 inCtx, outCtx, clock, envVars, nSrc>>

\* onmessage after its await (495-507): the source is created, started at the
\* cursor and added to the set, the cursor moves on by the chunk's duration;
\* then the interrupted branch.
OnMessageResume ==
  /\ resume.k # 0
  /\ LET i == nSrc + 1
         started == [src EXCEPT ![i] = [state |-> "playing", ctx |-> resume.ctx,
                                        start |-> nextStartTimeRef, dur |-> resume.dur]]
         active == audioSourcesRef \cup {i}
     IN /\ nSrc' = i
        /\ src' = IF resume.interrupted THEN StopAll(started, active) ELSE started
        /\ audioSourcesRef' = IF resume.interrupted THEN {} ELSE active
        /\ nextStartTimeRef' =
             IF resume.interrupted THEN 0
             ELSE CursorAfter(nextStartTimeRef, resume.dur)
        /\ sched' = IF resume.interrupted THEN <<>>
                    ELSE Append(sched, [start |-> nextStartTimeRef, dur |-> resume.dur,
                                        clk |-> clock[resume.ctx]])
  /\ resume' = NoResume
  /\ UNCHANGED <<apiKey, appVars, stopAsked, capVars, codecVars,
                 isRecording, recView, chatMessages, dirty, mediaStreamRef,
                 inputAudioContextRef, outputAudioContextRef, sessionPromiseRef,
                 attemptVars, stream, inCtx, outCtx, clock, envVars, bufVars, nMsgs>>

\* A listener that leaves the ended source in the set.
KeepEnded(set, i) == set

\* audioSourcesRef.current.delete(source) in the 'ended' listener (498).
RemoveEnded(set, i) == set \ {i}

\* The 'ended' listener of a source (498), when its playback ends by itself.
SourceEnded(i) ==
  /\ Idle
  /\ src[i].state = "playing"
  /\ outCtx[src[i].ctx] = "running"
  /\ clock[src[i].ctx] >= src[i].start + src[i].dur
  /\ src' = [src EXCEPT ![i].state = "ended"]
  /\ audioSourcesRef' = RemoveEnded(audioSourcesRef, i)
  /\ UNCHANGED <<apiKey, appVars, stopAsked, capVars, codecVars,
                 isRecording, recView, chatMessages, dirty, mediaStreamRef,
                 inputAudioContextRef, outputAudioContextRef, sessionPromiseRef,
                 nextStartTimeRef, attemptVars, stream, inCtx, outCtx, envVars,
                 bufVars, playVars, sched>>

\* The clock of a running output context advances.
Tick(k) ==
  /\ Idle
  /\ outCtx[k] = "running"
  /\ clock[k] < MaxClock
  /\ clock' = [clock EXCEPT ![k] = clock[k] + 1]
  /\ UNCHANGED <<apiKey, appVars, stopAsked, capVars, codecVars,
                 chatMessages, dirty, recView, attemptVars, refVars,
                 resVars, envVars, bufVars, resume, nMsgs, nSrc, sched>>

\* ----------------------------------------------- knowledge base and chat
\* What the handlers outside the voice session leave alone.
voiceFrame == <<apiKey, isRecording, recView, dirty, refVars, attemptVars, resVars,
                envVars, bufVars, playVars, sched, capVars, stopAsked, codecVars>>

\* The effect of 141-174: when activeUrlGroupId, urlGroups, selectedModel or
\* storedFiles has changed, the render is followed by
\* setChatMessages([welcome]), which replaces the whole log.
WelcomeLog ==
  << Msg("system", "welcome",
         IF apiKey THEN "Welcome" ELSE "ERROR: Gemini API Key is not configured.", 0) >>

\* A request on the 'files' object store. The database is opened once
\* (initDB, 234-259); the transactions of saveFile, updateFile and deleteFile
\* are on the same store and read-write, so they run in the order they were
\* created.
Request(op, id, flag) == [op |-> op, id |-> id, flag |-> flag]

PendingAdds == Cardinality({ i \in DOMAIN requests : requests[i].op = "add" })

\* reader.onload of handleFileUpload (255-266): saveFile(newFile), isActive
\* true.
handleFileUpload ==
  /\ nFileOps < MaxFileOps
  /\ nextKey + PendingAdds < MaxFiles
  /\ nFileOps' = nFileOps + 1
  /\ requests' = Append(requests, Request("add", 0, "on"))
  /\ UNCHANGED <<voiceFrame, chatMessages, chatVars, storedFiles, db, nextKey>>

\* handleFileToggle (283-296), called by the checkbox of a listed file with
\* the negation of the flag shown (FileManager.tsx 83-84): updateFile of the
\* file found in storedFiles with the new flag.
handleFileToggle(id) ==
  /\ nFileOps < MaxFileOps
  /\ storedFiles[id] # "none"
  /\ nFileOps' = nFileOps + 1
  /\ requests' = Append(requests,
       Request("put", id, IF storedFiles[id] = "on" THEN "off" ELSE "on"))
  /\ UNCHANGED <<voiceFrame, chatMessages, chatVars, storedFiles, db, nextKey>>

\* handleFileDelete (298-305), called by the delete button of a listed file
\* (FileManager.tsx 91): deleteFile(id).
handleFileDelete(id) ==
  /\ nFileOps < MaxFileOps
  /\ storedFiles[id] # "none"
  /\ nFileOps' = nFileOps + 1
  /\ requests' = Append(requests, Request("delete", id, "none"))
  /\ UNCHANGED <<voiceFrame, chatMessages, chatVars, storedFiles, db, nextKey>>

\* store.add(file) (266): the key generator gives the next key.
StoreAdd(store, key, flag) == [store EXCEPT ![key] = flag]
\* store.put(file) (306): the record with the file's id is written, and
\* created when the store has none.
StorePut(store, id, flag) == [store EXCEPT ![id] = flag]
\* store.delete(id) (328)
StoreDelete(store, id) == [store EXCEPT ![id] = "none"]

\* The oldest request completes. On success the awaiting handler goes on:
\* setStoredFiles appends the saved file (264), maps the updated file over
\* the entry with its id (289), or filters the id out (301); storedFiles has
\* changed, so the welcome effect replaces the chat log. On failure the catch
\* block appends a SYSTEM message (267, 292, 303).
StorageCompletes(ok) ==
  /\ requests # <<>>
  /\ requests' = Tail(requests)
  /\ LET r == Head(requests)
         key == nextKey + 1
     IN IF ~ok
          THEN /\ chatMessages' = Append(chatMessages,
                    Msg("system", "fileError", "Error: " \o r.op, 0))
               /\ UNCHANGED <<storedFiles, db, nextKey>>
        ELSE /\ chatMessages' = WelcomeLog
             /\ IF r.op = "add"
                  THEN /\ db' = StoreAdd(db, key, r.flag)
                       /\ nextKey' = key
                       /\ storedFiles' = [storedFiles EXCEPT ![key] = r.flag]
                ELSE IF r.op = "put"
                  THEN /\ db' = StorePut(db, r.id, r.flag)
                       /\ storedFiles' = IF storedFiles[r.id] = "none" THEN storedFiles
                                         ELSE [storedFiles EXCEPT ![r.id] = r.flag]
                       /\ UNCHANGED nextKey
                ELSE /\ db' = StoreDelete(db, r.id)
                     /\ storedFiles' = [storedFiles EXCEPT ![r.id] = "none"]
                     /\ UNCHANGED nextKey
  /\ UNCHANGED <<voiceFrame, chatVars, nFileOps>>

\* The placeholder of query q (342-347), and the reply that takes its place
\* and keeps its id (361-368, 375-378).
Placeholder(q) == Msg("model", "modelResponse", "Thinking...", q)
Reply(q, ok) ==
  IF ok THEN Msg("model", "modelResponse", "answer", q)
  ELSE Msg("system", "modelResponse", "Error: Failed to get response from AI.", q)

\* prevMessages.map(msg => msg.id === modelPlaceholderMessage.id ? reply : msg)
\* (360-370, 373-380)
ReplacePlaceholder(log, q, reply) ==
  [i \in DOMAIN log |->
     IF log[i].kind = "modelResponse" /\ log[i].k = q THEN reply ELSE log[i]]

\* handleSendMessage up to its await (307-355), for a query that is not
\* blank. isFetchingSuggestions only delays the moment a query is accepted
\* and is left out.
handleSendMessage ==
  /\ ~isLoading
  /\ IF ~apiKey
       THEN /\ Len(chatMessages) < MaxNoKey
            /\ chatMessages' = Append(chatMessages,
                 Msg("system", "noKey", "ERROR: API Key is not configured.", 0))
            /\ UNCHANGED chatVars
       ELSE LET q == nQueries + 1
            IN /\ nQueries < MaxQueries
               /\ nQueries' = q
               /\ isLoading' = TRUE
               /\ pending' = q
               /\ chatMessages' = chatMessages
                    \o << Msg("user", "query", "query", q), Placeholder(q) >>
               /\ UNCHANGED nContext
  /\ UNCHANGED <<voiceFrame, fileVars>>

\* The request of the query in flight settles (356-383): the reply, or the
\* SYSTEM error message, is mapped over the placeholder, and finally
\* isLoading is set to false.
ResponseArrives(ok) ==
  /\ pending # 0
  /\ chatMessages' = ReplacePlaceholder(chatMessages, pending, Reply(pending, ok))
  /\ isLoading' = FALSE
  /\ pending' = 0
  /\ UNCHANGED <<voiceFrame, fileVars, nQueries, nContext>>

\* The user selects another group (566), edits the URL list (228-250) or
\* changes the mode (586): the welcome effect replaces the chat log.
ContextChange ==
  /\ nContext < MaxContext
  /\ nContext' = nContext + 1
  /\ chatMessages' = WelcomeLog
  /\ UNCHANGED <<voiceFrame, fileVars, isLoading, pending, nQueries>>

\* --------------------------------------------------------- specifications
InTexts == {"", "a", "b"}
OutTexts == {"", "x"}

\* The messages of the lifecycle specification: an audio chunk.
LifeMessages == { Message("", "", FALSE, 2, FALSE) }

\* The messages of the playback specification: audio and interruption.
PlayMessages ==
  { Message("", "", FALSE, a, int) : a \in {0} \cup Durations, int \in BOOLEAN }
  \ { Message("", "", FALSE, 0, FALSE) }

\* The messages of the transcript specification: texts, turn ends, interruption.
TurnMessages ==
  { Message(i, o, tc, 0, int) :
      i \in InTexts, o \in OutTexts, tc \in BOOLEAN, int \in BOOLEAN }
  \ { Message("", "", FALSE, 0, FALSE) }

\* What every specification has: the start sequence, the session's callbacks,
\* the renders.
Lifecycle(maxAttempts) ==
  \/ ToggleRecording(maxAttempts)
  \/ \E k \in Attempts : GetUserMediaRejects(k)
  \/ \E k \in Attempts : GetUserMediaResolves(k)
  \/ \E k \in Attempts : ConnectOpens(k)
  \/ \E k \in Attempts : ConnectRejects(k)
  \/ \E k \in Attempts : OnError(k)
  \/ \E k \in Attempts : OnClose(k)
  \/ Render

\* The session lifecycle: several start attempts, few messages.
Next ==
  \/ Lifecycle(MaxAttempts)
  \/ \E k \in Attempts : \E m \in LifeMessages : OnMessage(k, m, MaxMsgs)
  \/ OnMessageResume

Spec == Init /\ [][Next]_vars

\* Playback: one start attempt, audio chunks, interruptions and the clock.
NextPlay ==
  \/ Lifecycle(PlayAttempts)
  \/ \E k \in Attempts : \E m \in PlayMessages : OnMessage(k, m, PlayMsgs)
  \/ OnMessageResume
  \/ \E i \in SrcIds : SourceEnded(i)
  \/ \E k \in Attempts : Tick(k)

SpecPlay == Init /\ [][NextPlay]_vars

\* Transcripts: one start attempt, transcript chunks and turn ends.
NextTurn ==
  \/ Lifecycle(PlayAttempts)
  \/ \E k \in Attempts : \E m \in TurnMessages : OnMessage(k, m, TurnMsgs)

SpecTurn == Init /\ [][NextTurn]_vars

\* The messages of the malformed-message specification: a sound audio chunk,
\* and chunks with a modelTurn without parts or an undecodable payload.
FaultMessages ==
  { Message("", "", FALSE, 2, FALSE) }
  \cup { Malformed(Message("", "", FALSE, 2, int), f) :
           int \in BOOLEAN, f \in {"noParts", "undecodable"} }

\* Malformed messages: one start attempt, sound and malformed audio chunks,
\* and the clock.
NextFault ==
  \/ Lifecycle(PlayAttempts)
  \/ \E k \in Attempts : \E m \in FaultMessages : OnMessage(k, m, FaultMsgs)
  \/ OnMessageResume
  \/ \E k \in Attempts : Tick(k)

SpecFault == Init /\ [][NextFault]_vars

\* The codec: a buffer of one sample is given to the two encoders, and what
\* createBlob made of it to the decoder.
voiceVars == <<apiKey, isRecording, recView, chatMessages, dirty, refVars,
               attemptVars, resVars, clock, envVars, bufVars, resume, nMsgs, nSrc,
               sched, capVars, stopAsked, appVars>>

InitCodec ==
  /\ InitVoice
  /\ data \in { <<s>> : s \in Samples }
  /\ int16 = <<>>
  /\ channelData = <<>>
  /\ output = <<>>

CallCreateBlob ==
  /\ int16 = <<>>
  /\ int16' = createBlob(data)
  /\ UNCHANGED <<voiceVars, data, channelData, output>>

CallDecodeAudioData ==
  /\ int16 # <<>>
  /\ channelData = <<>>
  /\ channelData' = decodeAudioData(int16)
  /\ UNCHANGED <<voiceVars, data, int16, output>>

CallFloatTo16BitPCM ==
  /\ output = <<>>
  /\ output' = floatTo16BitPCM(data)
  /\ UNCHANGED <<voiceVars, data, int16, channelData>>

NextCodec ==
  \/ CallCreateBlob
  \/ CallDecodeAudioData
  \/ CallFloatTo16BitPCM

SpecCodec == InitCodec /\ [][NextCodec]_vars

\* Capture: the script processor firing between the steps of the lifecycle.
NextCapture ==
  \/ Lifecycle(CaptureAttempts)
  \/ \E c \in Attempts : AudioProcess(c)

SpecCapture == Init /\ [][NextCapture]_vars


\* Both producers: inbound messages and capture ticks between the steps of
\* the lifecycle.
NextFrame ==
  \/ Lifecycle(CaptureAttempts)
  \/ \E k \in Attempts : \E m \in LifeMessages : OnMessage(k, m, MaxMsgs)
  \/ OnMessageResume
  \/ \E c \in Attempts : AudioProcess(c)

SpecFrame == Init /\ [][NextFrame]_vars

\* The knowledge base and the text chat.
NextApp ==
  \/ handleFileUpload
  \/ \E id \in FileIds : handleFileToggle(id)
  \/ \E id \in FileIds : handleFileDelete(id)
  \/ \E ok \in BOOLEAN : StorageCompletes(ok)
  \/ handleSendMessage
  \/ \E ok \in BOOLEAN : ResponseArrives(ok)
  \/ ContextChange

SpecApp == Init /\ [][NextApp]_vars


\* ------------------------------------------------------------- properties
StatusKinds == {"startError", "sessionError", "sessionClosed"}

\* The status messages the log holds for attempt k.
StatusMessages(k) ==
  { i \in DOMAIN chatMessages :
      chatMessages[i].k = k /\ chatMessages[i].kind \in StatusKinds }

\* The transport of session k is still up.
Unreleased(k) == sess[k] \in {"connecting", "open", "closing"} /\ ~errFired[k]

\* C1: handleCleanup is idempotent. From every reachable state, a second
\* handleCleanup right after a first one leaves the refs, the cursor, the
\* active set and isRecording as the first left them, and releases nothing:
\* it stops no track, closes no context, stops no source.
C1_CleanupIdempotent ==
  LET once == handleCleanup(Voice)
      twice == handleCleanup(once)
  IN /\ Observable(twice) = Observable(once)
     /\ twice.releases = 0
     /\ twice.stopped = {}
     /\ twice.stream = once.stream
     /\ twice.inCtx = once.inCtx
     /\ twice.outCtx = once.outCtx
     /\ twice.src = once.src

\* handleCleanup has run twice for the one session there is (onerror, then
\* onclose), and the first run had a stream, two contexts and a source to release.
C1_Witness ==
  /\ nAttempts = 1
  /\ errFired[1] /\ closeFired[1]
  /\ stream[1] = "stopped" /\ inCtx[1] = "closed" /\ outCtx[1] = "closed"
  /\ \E i \in SrcIds : src[i].state = "stopped"
  /\ mediaStreamRef = 0 /\ audioSourcesRef = {}

\* handleCleanup, called in voice state v, has left voice state c: the tracks
\* of the stream v held are stopped, the contexts v held are closed, the
\* sources of v's active set are stopped, and c holds nothing.
CleanedUp(v, c) ==
  /\ c.ms = 0
  /\ v.ms # 0 => c.stream[v.ms] = "stopped"
  /\ c.inRef = 0
  /\ v.inRef # 0 => c.inCtx[v.inRef] = "closed"
  /\ c.outRef = 0
  /\ v.outRef # 0 => c.outCtx[v.outRef] = "closed"
  /\ \A i \in v.srcs : c.src[i].state = "stopped"
  /\ c.srcs = {}
  /\ c.next = 0
  /\ c.sp = 0
  /\ c.rec = FALSE

\* C2: when a handler that ends in handleCleanup returns (onerror, onclose,
\* the catch block after any of the three acquisitions failed), the tracks of
\* the stream the ref held are stopped and the ref is null, both contexts the
\* refs held are closed and their refs null, every source of the active set
\* is stopped and the set empty, the cursor is 0, the session ref is null and
\* isRecording is false.
C2_CleanupPost ==
  [][/\ (\E k \in Attempts : OnError(k) \/ OnClose(k) \/ GetUserMediaRejects(k))
          => CleanedUp(Voice, Voice')
     /\ \A k \in Attempts :
          (GetUserMediaResolves(k) /\ pc'[k] = "failed") =>
            IF inCtx'[k] = "none"
              THEN CleanedUp(WithStream(Voice, k), Voice')
              ELSE CleanedUp(WithInputContext(WithStream(Voice, k), k), Voice')
    ]_vars

\* onclose has run handleCleanup on a session that held a stream, two contexts
\* and a playing source, and nothing is held any more.
C2_Witness ==
  \E k \in Attempts :
    /\ closeFired[k] /\ ~errFired[k]
    /\ stream[k] = "stopped" /\ inCtx[k] = "closed" /\ outCtx[k] = "closed"
    /\ \E i \in SrcIds : src[i].state = "stopped" /\ src[i].ctx = k
    /\ mediaStreamRef = 0 /\ inputAudioContextRef = 0 /\ outputAudioContextRef = 0
    /\ sessionPromiseRef = 0 /\ audioSourcesRef = {} /\ nextStartTimeRef = 0
    /\ ~isRecording

\* C3: after any failure of a start attempt (getUserMedia rejected, a context
\* constructor throwing, the connect promise rejecting or the connection
\* failing before it opens) the attempt holds nothing: its stream is not
\* live, its contexts are not running, no ref points at it, a failure is
\* reported in the log, and unless a later attempt has started isRecording
\* is false.
C3_StartFailureCleansUp ==
  \A k \in Attempts :
    (pc[k] = "failed" \/ sess[k] \in {"rejected", "failed"}) =>
      /\ stream[k] # "live"
      /\ inCtx[k] # "running" /\ outCtx[k] # "running"
      /\ mediaStreamRef # k /\ inputAudioContextRef # k
      /\ outputAudioContextRef # k /\ sessionPromiseRef # k
      /\ StatusMessages(k) # {}
      /\ nAttempts = k => ~isRecording

\* C4: the terminal callback of a session that fires second (onclose after
\* onerror) runs no cleanup action: it leaves the refs, isRecording and every
\* stream, context and source as they are.
C4_SecondTerminalCallbackIsInert ==
  [][\A k \in Attempts :
       (errFired[k] /\ OnClose(k)) => UNCHANGED <<refVars, resVars>>]_vars

\* C5: a session whose terminal callbacks have fired, or a start attempt that
\* failed in the try block, has exactly one status message in the log, and no
\* other attempt has any.
C5_OneStatusMessage ==
  \A k \in Attempts :
    Cardinality(StatusMessages(k)) =
      IF pc[k] = "failed" \/ errFired[k] \/ closeFired[k] THEN 1 ELSE 0

\* C6: at most one microphone stream is live and at most one session is
\* un-released at any time.
C6_SingleActiveSession ==
  /\ Cardinality({k \in Attempts : stream[k] = "live"}) <= 1
  /\ Cardinality({k \in Attempts : Unreleased(k)}) <= 1


\* An Interrupted event has been handled in this step: by onmessage itself when
\* it schedules no audio, by its continuation otherwise.
InterruptedNoAudio ==
  \E k \in Attempts : \E m \in PlayMessages :
    m.interrupted /\ OnMessage(k, m, PlayMsgs) /\ resume'.k = 0
InterruptedAfterAudio == resume.interrupted /\ OnMessageResume

\* C7: when an Interrupted event has been handled the active set is empty and
\* the cursor is 0, every source that was in the set (the one the same
\* message scheduled included) is stopped, and with no source in flight
\* nothing but the cursor is touched.
C7_InterruptClears ==
  [][/\ InterruptedNoAudio =>
          /\ audioSourcesRef' = {}
          /\ nextStartTimeRef' = 0
          /\ \A i \in audioSourcesRef : src'[i].state = "stopped"
          /\ audioSourcesRef = {} => src' = src
     /\ InterruptedAfterAudio =>
          /\ audioSourcesRef' = {}
          /\ nextStartTimeRef' = 0
          /\ \A i \in audioSourcesRef \cup {nSrc'} : src'[i].state = "stopped"
    ]_vars

\* No cleanup has run, the session is open, and an interruption has stopped
\* two sources that were in flight.
C7_Witness ==
  /\ pc[1] = "started" /\ sess[1] = "open" /\ ~errFired[1]
  /\ Cardinality({i \in SrcIds : src[i].state = "stopped"}) >= 2
  /\ audioSourcesRef = {} /\ nextStartTimeRef = 0
  /\ Idle

\* The step is an interruption or a teardown.
ResetStep ==
  \/ InterruptedNoAudio
  \/ InterruptedAfterAudio
  \/ \E k \in Attempts : OnError(k) \/ OnClose(k) \/ GetUserMediaRejects(k)
  \/ \E k \in Attempts : GetUserMediaResolves(k) /\ pc'[k] = "failed"

\* C8: the chunks scheduled since the last interruption or teardown do not
\* overlap, each starting no earlier than the one before it ends, and the
\* cursor decreases in no step but an interruption or a teardown.
C8_CursorMonotone ==
  /\ [](\A j \in 2..Len(sched) : sched[j].start >= sched[j-1].start + sched[j-1].dur)
  /\ [][nextStartTimeRef' < nextStartTimeRef => ResetStep]_vars

\* Two chunks scheduled with a gap: the output clock had passed the cursor.
C8_Witness ==
  /\ Len(sched) >= 2
  /\ sched[2].start > sched[1].start + sched[1].dur
  /\ src[1].state = "ended"

\* The end of the chunk scheduled before chunk j, 0 for the first.
PrevEnd(j) == IF j = 1 THEN 0 ELSE sched[j-1].start + sched[j-1].dur

RECURSIVE SumDur(_)
SumDur(j) == IF j = 0 THEN 0 ELSE SumDur(j - 1) + sched[j].dur

\* C9: each chunk starts at the later of the cursor and the output clock, the
\* cursor stands at the end of the chunk scheduled last as soon as it is
\* scheduled, and when the clock was behind the cursor at every schedule,
\* chunk j starts at the sum of the durations of the chunks before it.
C9_Gapless ==
  /\ \A j \in 1..Len(sched) :
       sched[j].start = IF sched[j].clk > PrevEnd(j) THEN sched[j].clk ELSE PrevEnd(j)
  /\ (Idle /\ sched # <<>>) =>
       nextStartTimeRef = sched[Len(sched)].start + sched[Len(sched)].dur
  /\ (\A j \in 1..Len(sched) : sched[j].clk <= PrevEnd(j)) =>
       \A j \in 1..Len(sched) : sched[j].start = SumDur(j - 1)

\* Chunks of 0.5 s, 0.3 s and 0.2 s scheduled at 0.0, 0.5 and 0.8, none of
\* them finished.
C9_Witness ==
  /\ Len(sched) = 3
  /\ sched[1].dur = 5 /\ sched[2].dur = 3 /\ sched[3].dur = 2
  /\ sched[1].start = 0 /\ sched[2].start = 5 /\ sched[3].start = 8
  /\ audioSourcesRef = {1, 2, 3}
  /\ nextStartTimeRef = 10

\* C10: a USER or MODEL message the log shows carries the text the transcript
\* buffer held when TurnComplete was handled, which is not empty.
C10_TurnFlush ==
  \A i \in DOMAIN chatMessages :
    (chatMessages[i].kind = "voice" /\ chatMessages[i].lazy = "") =>
      /\ chatMessages[i].said # ""
      /\ chatMessages[i].text = chatMessages[i].said


\* The USER and MODEL messages of session k the log holds.
VoiceMessages(k) ==
  { i \in DOMAIN chatMessages :
      chatMessages[i].k = k /\ chatMessages[i].kind = "voice" }

\* C11: when a message carrying Interrupted has been handled, both transcript
\* variables of the session are empty, so no text received before the
\* interruption can be part of a message emitted at a later TurnComplete.
C11_InterruptDiscardsTranscript ==
  [][\A k \in Attempts : \A m \in TurnMessages :
       (m.interrupted /\ OnMessage(k, m, TurnMsgs)) =>
         bufIn'[k] = "" /\ bufOut'[k] = ""]_vars

\* C12: once onerror or onclose has fired for a session, no step appends a
\* USER or MODEL message of that session to the log.
C12_NoFlushAfterTerminal ==
  [][\A k \in Attempts :
       (errFired[k] \/ closeFired[k]) =>
         Cardinality(VoiceMessages(k))' = Cardinality(VoiceMessages(k))]_vars

\* C13: an audio chunk of a session whose onerror or onclose has fired is
\* ignored: onmessage does not reach its await, creates no source, and leaves
\* the cursor and the active set alone, whatever the refs hold by then.
C13_LateChunkIgnored ==
  [][\A k \in Attempts : \A m \in LifeMessages :
       ((errFired[k] \/ closeFired[k]) /\ OnMessage(k, m, MaxMsgs)) =>
         /\ resume' = NoResume
         /\ UNCHANGED <<nextStartTimeRef, audioSourcesRef, src, nSrc>>]_vars

\* C14: the step in which the user stops the recording (handleToggleRecording
\* called with isRecording true) stops every active playback source and
\* empties the active set.
C14_StopSilences ==
  [][(apiKey /\ recView /\ ToggleRecording(PlayAttempts)) =>
       /\ audioSourcesRef' = {}
       /\ \A i \in audioSourcesRef : src'[i].state = "stopped"]_vars

\* A stream, a context or the session ref of attempt k is released in this step.
Released(k) ==
  \/ stream[k] = "live" /\ stream'[k] # "live"
  \/ inCtx[k] = "running" /\ inCtx'[k] # "running"
  \/ outCtx[k] = "running" /\ outCtx'[k] # "running"
  \/ sessionPromiseRef = k /\ sessionPromiseRef' # k

\* C15: the step in which the user stops the recording changes no ref, no
\* stream, no context, no source and not isRecording; with a session in the
\* session ref it requests the close of that session; and what a session
\* whose close was requested holds is released in no step but a terminal
\* callback of that session.
C15_StopIsAsynchronous ==
  [][/\ (apiKey /\ recView /\ ToggleRecording(MaxAttempts)) =>
          /\ UNCHANGED <<refVars, resVars>>
          /\ \A k \in Attempts :
               (sessionPromiseRef = k /\ sess[k] \in {"connecting", "open"}) =>
                  sess'[k] = "closing" \/ closeWanted'[k]
     /\ \A k \in Attempts :
          ((sess[k] = "closing" \/ closeWanted[k]) /\ Released(k)) =>
             (OnError(k) \/ OnClose(k))
    ]_vars

\* C15 holds in every step taken while no session has had a second terminal
\* callback: it fails only after an onclose that follows the onerror of the
\* same session (C4).
C15_ExceptSecondCallback ==
  [][(\A j \in Attempts : ~(errFired[j] /\ closeFired'[j])) =>
       /\ (apiKey /\ recView /\ ToggleRecording(MaxAttempts)) =>
            /\ UNCHANGED <<refVars, resVars>>
            /\ \A k \in Attempts :
                 (sessionPromiseRef = k /\ sess[k] \in {"connecting", "open"}) =>
                    sess'[k] = "closing" \/ closeWanted'[k]
       /\ \A k \in Attempts :
            ((sess[k] = "closing" \/ closeWanted[k]) /\ Released(k)) =>
               (OnError(k) \/ OnClose(k))
    ]_vars

\* C16: sendRealtimeInput is called on a session only while it is open: not
\* once its close was requested, and not after one of its terminal callbacks.
C16_SendOnlyWhenOpen ==
  \A k \in Attempts : sent[k] \subseteq {"open", "queued", "queuedAfterClose"}

Abs(x) == IF x >= 0 THEN x ELSE 0 - x

\* C17: a sample in [-1, 1] that createBlob has encoded and decodeAudioData
\* has decoded is within 1/32768 of what it was, 1.0 and -1.0 included.
C17_RoundTrip ==
  \A i \in DOMAIN channelData :
    Abs(data[i]) <= Grid => Abs(channelData[i] - data[i]) <= Grid \div Scale

\* What the frame encoder is to make of the sample s: s clamped to [-1, 1],
\* then round(s * 32767) for s >= 0 and round(s * 32768) for s < 0.
Expected(s) ==
  IF Clamp(s) >= 0 THEN Round(Clamp(s), PosScale) ELSE Round(Clamp(s), Scale)

\* The encoded value v is a 16-bit signed integer of the sign of the sample s.
InRangeAndSign(v, s) ==
  /\ v \in (0 - Scale) .. PosScale
  /\ s > 0 => v >= 0
  /\ s < 0 => v <= 0

\* C18: what an encoder (createBlob for the live frames, floatTo16BitPCM for
\* the WAV data) makes of a sample is the value the mapping of the
\* specification gives, in -32768 .. 32767 and of the sample's sign.
C18_EncoderMapping ==
  /\ \A i \in DOMAIN int16 :
       int16[i] = Expected(data[i]) /\ InRangeAndSign(int16[i], data[i])
  /\ \A i \in DOMAIN output :
       output[i] = Expected(data[i]) /\ InRangeAndSign(output[i], data[i])

\* The same for createBlob alone, and for its range and sign alone.
C18_LiveEncoderRangeAndSign ==
  \A i \in DOMAIN int16 : InRangeAndSign(int16[i], data[i])

\* The same for floatTo16BitPCM alone.
C18_WavEncoderMapping ==
  \A i \in DOMAIN output :
    output[i] = Expected(data[i]) /\ InRangeAndSign(output[i], data[i])

\* C19: a malformed message ends no session and runs no cleanup, leaves the
\* refs, the cursor, the active set, every stream, context and source as
\* they are, and leaves no continuation behind.
C19_MalformedSkipped ==
  [][\A k \in Attempts : \A m \in FaultMessages :
       (m.fault # "none" /\ OnMessage(k, m, FaultMsgs)) =>
         /\ UNCHANGED <<refVars, resVars, envVars>>
         /\ resume' = NoResume]_vars

\* The same with the cursor left out: it is the one thing a malformed message
\* changes.
C19_ExceptCursor ==
  [][\A k \in Attempts : \A m \in FaultMessages :
       (m.fault # "none" /\ OnMessage(k, m, FaultMsgs)) =>
         /\ UNCHANGED <<mediaStreamRef, inputAudioContextRef, outputAudioContextRef,
                        sessionPromiseRef, audioSourcesRef, isRecording, resVars,
                        envVars>>
         /\ nextStartTimeRef' >= nextStartTimeRef
         /\ resume' = NoResume]_vars

C22_ActiveSetInvariant ==
  /\ \A i \in audioSourcesRef : i <= nSrc /\ src[i].state = "playing"
  /\ outputAudioContextRef = 0 => audioSourcesRef = {}

\* One source still in the set, one that ended by itself and one that was
\* stopped.
C22_Witness ==
  /\ audioSourcesRef # {}
  /\ \E i \in SrcIds : src[i].state = "ended"
  /\ \E i \in SrcIds : src[i].state = "stopped"

\* The handles the controller owns.
handles == <<mediaStreamRef, inputAudioContextRef, outputAudioContextRef,
             sessionPromiseRef, isRecording>>

\* C23: handling an inbound message and a capture tick leave the media stream
\* ref, the two audio-context refs, the session ref and isRecording as they
\* were; a step that changes one of them is a step of the start sequence or
\* one that runs handleCleanup.
C23_ProducersLeaveHandles ==
  [][ /\ ( \/ \E k \in Attempts : \E m \in LifeMessages : OnMessage(k, m, MaxMsgs)
           \/ OnMessageResume
           \/ \E c \in Attempts : AudioProcess(c) )
         => handles' = handles
      /\ handles' # handles
         => \/ ToggleRecording(CaptureAttempts)
            \/ \E k \in Attempts : GetUserMediaRejects(k)
            \/ \E k \in Attempts : GetUserMediaResolves(k)
            \/ \E k \in Attempts : OnError(k)
            \/ \E k \in Attempts : OnClose(k) ]_vars

\* While recording with every handle set, a message was handled, its audio
\* is playing and a capture tick has fired.
C23_Witness ==
  /\ isRecording
  /\ mediaStreamRef # 0 /\ inputAudioContextRef # 0
  /\ outputAudioContextRef # 0 /\ sessionPromiseRef # 0
  /\ nMsgs > 0 /\ nTicks > 0
  /\ audioSourcesRef # {}

\* Attempt k is starting: its connect is pending, the refs hold its session,
\* its live stream and its two running contexts, and isRecording is true.
Starting(k) ==
  /\ sess[k] = "connecting"
  /\ sessionPromiseRef = k
  /\ isRecording
  /\ mediaStreamRef # 0 /\ stream[mediaStreamRef] = "live"
  /\ inputAudioContextRef # 0 /\ inCtx[inputAudioContextRef] = "running"
  /\ outputAudioContextRef # 0 /\ outCtx[outputAudioContextRef] = "running"

C25_CleanupSparesLaterSession ==
  [][ \A a, b \in Attempts :
        ( /\ a < b
          /\ sessionPromiseRef = b
          /\ OnError(a) \/ OnClose(a) )
        => /\ handles' = handles
           /\ stream'[b] = stream[b]
           /\ inCtx'[b] = inCtx[b]
           /\ outCtx'[b] = outCtx[b] ]_vars

\* C26: a stop request is not lost. When the connect of an attempt resolves
\* and the user had asked to stop that attempt, while its connect was pending
\* (closeWanted) or before, while its getUserMedia was (stopAsked),
\* session.close() is called on its session.
C26_StopRequestKept ==
  [][ \A k \in Attempts :
        ConnectOpens(k) /\ (stopAsked = k \/ closeWanted[k])
          => sess'[k] = "closing" ]_vars

\* C27: knowledge-base consistency. Once every storage request has
\* completed, the files the UI state holds, with their isActive flags, are
\* the files the store holds.
C27_StoreMatchesView == requests = <<>> => storedFiles = db

\* C28: when the request of an accepted query settles, its placeholder is
\* replaced in the chat log by exactly one reply (the model's response, or the
\* SYSTEM error message), no 'Thinking...' of the query is left, and
\* isLoading is false again.
C28_PlaceholderReplaced ==
  [][ \A ok \in BOOLEAN :
        ResponseArrives(ok) =>
          /\ Cardinality({ i \in DOMAIN chatMessages' :
                             chatMessages'[i] = Reply(pending, ok) }) = 1
          /\ \A i \in DOMAIN chatMessages' : chatMessages'[i] # Placeholder(pending)
          /\ ~isLoading' ]_vars

====
